---- MODULE Spec2Model ----
(***************************************************************************)
(* Points3DTileContent (Source/Scene/Points3DTileContent.js): the load     *)
(* lifecycle of one points tile (request, fetch continuation, initialize,  *)
(* update, destroy) and the draw command initialize assembles from the     *)
(* tile's feature table.                                                   *)
(***************************************************************************)
EXTENDS Integers, Sequences, FiniteSets, TLC

\* ------------------------------------------------------------------ bounds
\* largest POINTS_LENGTH a modelled tile carries
MaxPoints == 2
\* number of request() calls in one behaviour
MaxRequests == 2

\* ------------------------------------------------------- state enumeration
Cesium3DTileContentState ==
  [UNLOADED |-> "UNLOADED", LOADING |-> "LOADING", PROCESSING |-> "PROCESSING",
   READY |-> "READY", FAILED |-> "FAILED"]

\* The render passes the file names. Pass.OPAQUE is the member the source
\* reads; TRANSLUCENT is the other pass the renderer defines.
Pass == [OPAQUE |-> "OPAQUE", TRANSLUCENT |-> "TRANSLUCENT"]

\* A JavaScript member read: a member the object lacks reads as undefined.
Member(object, name) ==
  IF name \in DOMAIN object THEN object[name] ELSE "undefined"

\* ------------------------------------------------------------------ colors
\* A Color is <<red, green, blue, alpha>>, each component a fraction counted in
\* 255ths (1.0 is 255/255), which is the scale Color.fromBytes divides by.
WHITE == <<255, 255, 255, 255>>
DARKGRAY == <<169, 169, 169, 255>>

\* Color.fromBytes(r, g, b, a, result): byte / 255.0 for each component.
fromBytes(bytes) == [i \in 1..4 |-> bytes[i]]

\* color.alpha < 1.0
AlphaBelowOne(color) == color[4] < 255

\* ------------------------------------------------------------ tile buffers
Keys ==
  {"POINTS_LENGTH", "POSITION", "POSITION_QUANTIZED", "QUANTIZED_VOLUME_SCALE",
   "RGBA", "RGB", "CONSTANT_COLOR", "NORMAL", "NORMAL_OCT16P"}

\* alpha bytes a per-point RGBA color may carry
AlphaBytes == {0, 255}

\* values a CONSTANT_COLOR property may carry
ConstantColorBytes == {<<255, 0, 0, 255>>, <<255, 0, 0, 128>>}

\* The feature table JSON: the keys it defines, and the values of the
\* properties whose value the tile reads (an absent property has the empty
\* value here and is never read).  RGBA holds the alpha byte of each point.
FeatureTables ==
  { [keys |-> ks, POINTS_LENGTH |-> n, RGBA |-> al, CONSTANT_COLOR |-> cc] :
      ks \in SUBSET Keys,
      n \in 0..MaxPoints,
      al \in UNION { [1..m -> AlphaBytes] : m \in 0..MaxPoints },
      cc \in ConstantColorBytes \cup {<<>>} }

WellFormedTable(json) ==
  /\ ("POINTS_LENGTH" \notin json.keys => json.POINTS_LENGTH = 0)
  /\ Len(json.RGBA) = (IF "RGBA" \in json.keys THEN json.POINTS_LENGTH ELSE 0)
  /\ (json.CONSTANT_COLOR = <<>>) <=> ("CONSTANT_COLOR" \notin json.keys)

EmptyTable == [keys |-> {}, POINTS_LENGTH |-> 0, RGBA |-> <<>>, CONSTANT_COLOR |-> <<>>]

PlainTable ==
  [keys |-> {"POINTS_LENGTH", "POSITION"}, POINTS_LENGTH |-> MaxPoints,
   RGBA |-> <<>>, CONSTANT_COLOR |-> <<>>]

\* The byte buffers a fetch delivers: the header fields initialize reads and the
\* feature table.  A zero featureTableJSONByteLength leaves no JSON text, so
\* its table is empty; the table of a tile with a wrong magic or version is
\* never read, and one table stands for all.
ArrayBuffers ==
  { [magic |-> "pnts", version |-> 1, featureTableJSONByteLength |-> 1, json |-> j] :
      j \in {t \in FeatureTables : WellFormedTable(t)} }
  \cup
  { [magic |-> m, version |-> v, featureTableJSONByteLength |-> 1, json |-> PlainTable] :
      m \in {"pnts", "b3dm"}, v \in {1, 2} }
  \cup
  { [magic |-> m, version |-> v, featureTableJSONByteLength |-> 0, json |-> EmptyTable] :
      m \in {"pnts", "b3dm"}, v \in {1, 2} }

\* defined(featureTableJSON.<key>)
defined(json, key) == key \in json.keys


\* featureTableResources.getGlobalProperty(name, ...): the property's value
\* when the table defines it, undefined otherwise.  This reports which.
getGlobalPropertyDefined(json, name) == name \in json.keys

\* -------------------------------------------------------------- exceptions
NoError == "none"
ErrMagic == "DeveloperError: Invalid Points tile.  Expected magic=pnts."
ErrVersion == "DeveloperError: Only Points tile version 1 is supported."
ErrJsonLength == "DeveloperError: Feature table must have a byte length greater than zero"
ErrPointsLength == "DeveloperError: POINTS_LENGTH must be defined"
ErrVolumeScale == "DeveloperError: QUANTIZED_VOLUME_SCALE must be defined for quantized positions."
ErrPosition == "DeveloperError: Either POSITION or POSITION_QUANTIZED must be defined."
ErrComponentDatatype == "DeveloperError: componentDatatype is not a valid value."
ErrContext == "ReferenceError: context is not defined"
ErrDestroyed == "tileset is destroyed"
ErrRequest == "RequestErrorEvent"

\* ---------------------------------------------------------- header checks
\* The magic, version and featureTableJSONByteLength checks, in source order.
HeaderError(arrayBuffer) ==
  IF arrayBuffer.magic # "pnts" THEN ErrMagic
  ELSE IF arrayBuffer.version # 1 THEN ErrVersion
  ELSE IF arrayBuffer.featureTableJSONByteLength = 0 THEN ErrJsonLength
  ELSE NoError

\* ------------------------------------------------------- variant resolution
\* ResolvePositions without the QUANTIZED_VOLUME_SCALE check
ResolvePositionsUnchecked(json) ==
  IF defined(json, "POSITION")
    THEN [positions |-> TRUE, isQuantized |-> FALSE, readsScale |-> FALSE, error |-> NoError]
  ELSE IF defined(json, "POSITION_QUANTIZED")
    THEN [positions |-> TRUE, isQuantized |-> TRUE, readsScale |-> TRUE, error |-> NoError]
  ELSE [positions |-> FALSE, isQuantized |-> FALSE, readsScale |-> FALSE, error |-> ErrPosition]

\* "Get the positions": POSITION first, else POSITION_QUANTIZED, which also
\* reads QUANTIZED_VOLUME_SCALE into this._quantizedVolumeScale.
ResolvePositions(json) ==
  IF defined(json, "POSITION")
    THEN [positions |-> TRUE, isQuantized |-> FALSE, readsScale |-> FALSE, error |-> NoError]
  ELSE IF defined(json, "POSITION_QUANTIZED")
    THEN [positions |-> TRUE, isQuantized |-> TRUE, readsScale |-> TRUE,
          error |-> IF getGlobalPropertyDefined(json, "QUANTIZED_VOLUME_SCALE")
                      THEN NoError ELSE ErrVolumeScale]
  ELSE [positions |-> FALSE, isQuantized |-> FALSE, readsScale |-> FALSE, error |-> ErrPosition]

\* ResolveColors with RGBA translucent only when some alpha byte is below 255
ResolveColorsByAlpha(json, constantColor, typedViewThrows) ==
  IF defined(json, "RGBA")
    THEN [colors |-> TRUE,
          isTranslucent |-> \E i \in 1..Len(json.RGBA) : json.RGBA[i] < 255,
          isConstantColor |-> FALSE,
          constantColor |-> constantColor, error |-> NoError]
  ELSE IF defined(json, "RGB")
    THEN [colors |-> ~typedViewThrows, isTranslucent |-> FALSE, isConstantColor |-> FALSE,
          constantColor |-> constantColor,
          error |-> IF typedViewThrows THEN ErrComponentDatatype ELSE NoError]
  ELSE IF defined(json, "CONSTANT_COLOR")
    THEN [colors |-> FALSE,
          isTranslucent |-> AlphaBelowOne(fromBytes(json.CONSTANT_COLOR)),
          isConstantColor |-> TRUE,
          constantColor |-> fromBytes(json.CONSTANT_COLOR), error |-> NoError]
  ELSE [colors |-> FALSE, isTranslucent |-> FALSE, isConstantColor |-> FALSE,
        constantColor |-> constantColor, error |-> NoError]

\* ResolveColors with CONSTANT_COLOR checked before RGBA and RGB
ResolveColorsConstantFirst(json, constantColor, typedViewThrows) ==
  IF defined(json, "CONSTANT_COLOR")
    THEN [colors |-> FALSE,
          isTranslucent |-> AlphaBelowOne(fromBytes(json.CONSTANT_COLOR)),
          isConstantColor |-> TRUE,
          constantColor |-> fromBytes(json.CONSTANT_COLOR), error |-> NoError]
  ELSE IF defined(json, "RGBA")
    THEN [colors |-> TRUE, isTranslucent |-> TRUE, isConstantColor |-> FALSE,
          constantColor |-> constantColor, error |-> NoError]
  ELSE IF defined(json, "RGB")
    THEN [colors |-> ~typedViewThrows, isTranslucent |-> FALSE, isConstantColor |-> FALSE,
          constantColor |-> constantColor,
          error |-> IF typedViewThrows THEN ErrComponentDatatype ELSE NoError]
  ELSE [colors |-> FALSE, isTranslucent |-> FALSE, isConstantColor |-> FALSE,
        constantColor |-> constantColor, error |-> NoError]

\* "Get the colors": RGBA, else RGB, else CONSTANT_COLOR.  The RGB branch
\* passes ComponentDatatype.UNISGNED_BYTE, a member ComponentDatatype lacks,
\* so the accessor is asked for a typed view of an undefined component type:
\* typedViewThrows says whether it throws or hands the values back.
ResolveColors(json, constantColor, typedViewThrows) ==
  IF defined(json, "RGBA")
    THEN [colors |-> TRUE, isTranslucent |-> TRUE, isConstantColor |-> FALSE,
          constantColor |-> constantColor, error |-> NoError]
  ELSE IF defined(json, "RGB")
    THEN [colors |-> ~typedViewThrows, isTranslucent |-> FALSE, isConstantColor |-> FALSE,
          constantColor |-> constantColor,
          error |-> IF typedViewThrows THEN ErrComponentDatatype ELSE NoError]
  ELSE IF defined(json, "CONSTANT_COLOR")
    THEN [colors |-> FALSE,
          isTranslucent |-> AlphaBelowOne(fromBytes(json.CONSTANT_COLOR)),
          isConstantColor |-> TRUE,
          constantColor |-> fromBytes(json.CONSTANT_COLOR), error |-> NoError]
  ELSE [colors |-> FALSE, isTranslucent |-> FALSE, isConstantColor |-> FALSE,
        constantColor |-> constantColor, error |-> NoError]

\* "Get the normals": NORMAL, else NORMAL_OCT16P.
ResolveNormals(json) ==
  IF defined(json, "NORMAL") THEN [normals |-> TRUE, isOctEncoded16P |-> FALSE]
  ELSE IF defined(json, "NORMAL_OCT16P") THEN [normals |-> TRUE, isOctEncoded16P |-> TRUE]
  ELSE [normals |-> FALSE, isOctEncoded16P |-> FALSE]

\* ------------------------------------------------------------ shader text
\* The vertex shader is a sequence of lines.  A line is a declaration
\* (attribute, varying, uniform), a local declared with its initial value
\* (local), or an assignment (assign); reads are the names its right-hand side
\* reads.  Names starting czm_ and gl_ are the renderer's and GLSL's own.
Line(kind, type, name, reads) ==
  [kind |-> kind, type |-> type, name |-> name, reads |-> reads]

VertexShaderPointSizeLine ==
  Line("assign", "", "gl_PointSize", {"pointSize"})

VertexShader(isQuantized, hasColors, isTranslucent, hasNormals, isOctEncoded16P) ==
  <<Line("attribute", "vec3", "a_position", {}),
    Line("varying", "vec4", "v_color", {}),
    Line("uniform", "float", "u_pointSize", {}),
    Line("uniform", "vec4", "u_constantColor", {})>>
  \o (IF hasColors
        THEN <<Line("attribute", IF isTranslucent THEN "vec4" ELSE "vec3", "a_color", {})>>
        ELSE <<>>)
  \o (IF hasNormals
        THEN <<Line("attribute", IF isOctEncoded16P THEN "vec2" ELSE "vec3", "a_normal", {})>>
        ELSE <<>>)
  \o (IF isQuantized
        THEN <<Line("uniform", "vec3", "u_quantizedVolumeScale", {})>>
        ELSE <<>>)
  \o (IF hasColors
        THEN <<Line("local", "vec4", "color", {"a_color", "u_constantColor"})>>
        ELSE <<Line("local", "vec4", "color", {"u_constantColor"})>>)
  \o (IF hasNormals
        THEN <<Line("local", "vec3", "normal",
                    IF isOctEncoded16P THEN {"czm_octDecode", "a_normal"} ELSE {"a_normal"}),
               Line("assign", "", "normal", {"czm_normal", "normal"}),
               Line("assign", "", "color", {"color", "normal", "czm_sunDirectionEC"})>>
        ELSE <<>>)
  \o (IF isQuantized
        THEN <<Line("local", "vec3", "position", {"a_position", "u_quantizedVolumeScale"})>>
        ELSE <<Line("local", "vec3", "position", {"a_position"})>>)
  \o <<Line("assign", "", "v_color", {"color"}),
       Line("assign", "", "gl_Position", {"czm_modelViewProjection", "position"}),
       VertexShaderPointSizeLine>>

\* ---------------------------------------------------------- uniform map
UniformMap(isQuantized) ==
  {"u_pointSize", "u_constantColor"}
    \cup (IF isQuantized THEN {"u_quantizedVolumeScale"} ELSE {})

\* ------------------------------------------------------ vertex attributes
positionAttributeLocation == 0
colorAttributeLocation == 1
normalAttributeLocation == 2

Attribute(index, components, datatype, normalize) ==
  [index |-> index, componentsPerAttribute |-> components,
   componentDatatype |-> datatype, normalize |-> normalize,
   offsetInBytes |-> 0, strideInBytes |-> 0]

Attributes(isQuantized, hasColors, isTranslucent, hasNormals, isOctEncoded16P) ==
  (IF isQuantized
     THEN <<Attribute(positionAttributeLocation, 3, "UNSIGNED_SHORT", TRUE)>>
     ELSE <<Attribute(positionAttributeLocation, 3, "FLOAT", FALSE)>>)
  \o (IF hasColors
        THEN <<Attribute(colorAttributeLocation, IF isTranslucent THEN 4 ELSE 3,
                         "UNSIGNED_BYTE", TRUE)>>
        ELSE <<>>)
  \o (IF hasNormals
        THEN (IF isOctEncoded16P
                THEN <<Attribute(normalAttributeLocation, 2, "UNSIGNED_BYTE", FALSE)>>
                ELSE <<Attribute(normalAttributeLocation, 3, "FLOAT", FALSE)>>)
        ELSE <<>>)

\* the attribute-name -> location map handed to ShaderProgram.fromCache, as
\* the set of its <<name, location>> entries
AttributeLocations(hasColors, hasNormals) ==
  {<<"a_position", positionAttributeLocation>>}
    \cup (IF hasColors THEN {<<"a_color", colorAttributeLocation>>} ELSE {})
    \cup (IF hasNormals THEN {<<"a_normal", normalAttributeLocation>>} ELSE {})

\* ----------------------------------------------------------- render state
\* rs: depthTest enabled; when translucent, combined with depthMask false and
\* alpha blending.  A render state that does not set them writes depth and
\* does not blend.
RenderStateOf(isTranslucent) ==
  [depthTest |-> TRUE,
   depthMask |-> ~isTranslucent,
   blending |-> IF isTranslucent THEN "ALPHA_BLEND" ELSE "DISABLED"]

\* pass : isTranslucent ? Pass.isTranslucent : Pass.OPAQUE
PassOf(isTranslucent) ==
  IF isTranslucent THEN Member(Pass, "isTranslucent") ELSE Member(Pass, "OPAQUE")

\* ----------------------------------------------------------- draw command
\* new DrawCommand(): a command with nothing set
EmptyDrawCommand == [modelMatrix |-> "undefined"]

DrawCommandOf(pointsLength, isQuantized, hasColors, isTranslucent, hasNormals, isOctEncoded16P) ==
  [modelMatrix |-> "new Matrix4()",
   primitiveType |-> "POINTS",
   count |-> pointsLength,
   vertexArray |-> Attributes(isQuantized, hasColors, isTranslucent, hasNormals, isOctEncoded16P),
   vertexShaderSource |-> VertexShader(isQuantized, hasColors, isTranslucent, hasNormals, isOctEncoded16P),
   attributeLocations |-> AttributeLocations(hasColors, hasNormals),
   uniformMap |-> UniformMap(isQuantized),
   renderState |-> RenderStateOf(isTranslucent),
   pass |-> PassOf(isTranslucent),
   owner |-> "this"]

\* the GPU objects initialize creates for one draw command
GpuObjects == {"vertexArray", "shaderProgram", "renderState"}


\* ------------------------------------------------------------------- state
VARIABLES
  arrayBuffer,                  \* the bytes the tile's url serves
  state,                        \* this.state
  constantColor,                \* this._constantColor
  quantizedVolumeScale,         \* this._quantizedVolumeScale: "undefined" or "defined"
  drawCommand,                  \* this._drawCommand
  contentReadyToProcessPromise, \* "pending", "resolved" or "rejected"
  readyPromise,                 \* "pending", "resolved" or "rejected"
  gpuResources,                 \* the GPU objects created and not destroyed
  settleLog,                    \* every resolve/reject call on the two deferreds, in order
  inFlight,                     \* fetches scheduled and not yet settled
  requests,                     \* request() calls so far
  destroyed,                    \* destroyObject(this) has run
  lastError                     \* what the last fetch continuation raised, or NoError

vars ==
  <<arrayBuffer, state, constantColor, quantizedVolumeScale, drawCommand,
    contentReadyToProcessPromise, readyPromise, gpuResources, settleLog, inFlight,
    requests, destroyed, lastError>>

\* the fields of the tile the fetch continuation reads and writes
This ==
  [state |-> state, constantColor |-> constantColor,
   quantizedVolumeScale |-> quantizedVolumeScale, drawCommand |-> drawCommand,
   contentReadyToProcessPromise |-> contentReadyToProcessPromise,
   readyPromise |-> readyPromise, gpuResources |-> gpuResources,
   settleLog |-> settleLog]

\* ---------------------------------------------------------------- deferreds
\* deferred.resolve / deferred.reject of when.defer(): the first call settles
\* the promise, a later call leaves it as it is.  Each call is logged with
\* the tile's state at the call.
Settle(this, promise, outcome) ==
  [this EXCEPT
     ![promise] = IF @ = "pending" THEN outcome ELSE @,
     !.settleLog = Append(@, [promise |-> promise, outcome |-> outcome, state |-> this.state])]

\* ------------------------------------------------------------- constructor
Init ==
  /\ arrayBuffer \in ArrayBuffers
  /\ state = Cesium3DTileContentState.UNLOADED
  /\ constantColor = WHITE
  /\ quantizedVolumeScale = "undefined"
  /\ drawCommand = EmptyDrawCommand
  /\ contentReadyToProcessPromise = "pending"
  /\ readyPromise = "pending"
  /\ gpuResources = {}
  /\ settleLog = <<>>
  /\ inFlight = 0
  /\ requests = 0
  /\ destroyed = FALSE
  /\ lastError = NoError

\* -------------------------------------------------------------- initialize
\* initialize(arrayBuffer) on the tile `this`: the tile it leaves and the
\* exception it raises (NoError when it returns).  contextBound: whether the
\* free identifier `context` read at "new VertexArray({context : context"
\* is bound in the enclosing (global) scope; the file itself never binds it.
initialize(this, buffer, contextBound, typedViewThrows) ==
  LET json == buffer.json
      pos == ResolvePositions(json)
      afterPositions ==
        IF pos.readsScale
          THEN [this EXCEPT !.quantizedVolumeScale =
                  IF getGlobalPropertyDefined(json, "QUANTIZED_VOLUME_SCALE")
                    THEN "defined" ELSE "undefined"]
          ELSE this
      col == ResolveColors(json, this.constantColor, typedViewThrows)
      nor == ResolveNormals(json)
      hasColors == col.colors
      hasNormals == nor.normals
      afterColors ==
        [afterPositions EXCEPT !.constantColor =
           IF ~hasColors /\ ~col.isConstantColor THEN DARKGRAY ELSE col.constantColor]
      assembled ==
        [afterColors EXCEPT
           !.gpuResources = @ \cup GpuObjects,
           !.drawCommand =
              DrawCommandOf(json.POINTS_LENGTH, pos.isQuantized, hasColors,
                            col.isTranslucent, hasNormals, nor.isOctEncoded16P)]
      processing ==
        Settle([assembled EXCEPT !.state = Cesium3DTileContentState.PROCESSING],
               "contentReadyToProcessPromise", "resolved")
      ready ==
        Settle([processing EXCEPT !.state = Cesium3DTileContentState.READY],
               "readyPromise", "resolved")
  IN IF HeaderError(buffer) # NoError
       THEN [this |-> this, error |-> HeaderError(buffer)]
     ELSE IF ~getGlobalPropertyDefined(json, "POINTS_LENGTH")
       THEN [this |-> this, error |-> ErrPointsLength]
     ELSE IF pos.error # NoError
       THEN [this |-> afterPositions, error |-> pos.error]
     ELSE IF col.error # NoError
       THEN [this |-> afterPositions, error |-> col.error]
     ELSE IF ~contextBound
       THEN [this |-> afterColors, error |-> ErrContext]
     ELSE [this |-> ready, error |-> NoError]

\* .otherwise(function(error) { that.state = FAILED; that.readyPromise.reject(error); })
otherwise(this, error) ==
  Settle([this EXCEPT !.state = Cesium3DTileContentState.FAILED], "readyPromise", "rejected")

\* Points3DTileContent.prototype.isDestroyed
prototypeIsDestroyed == FALSE

\* that.isDestroyed(): the prototype's method until destroyObject(this)
\* replaces it on the instance by one that returns true
isDestroyed == IF destroyed THEN TRUE ELSE prototypeIsDestroyed

\* promise.then(function(arrayBuffer) {...}): what the callback raises or
\* rejects with, and the tile it leaves
then(this, buffer, contextBound, typedViewThrows) ==
  IF isDestroyed
    THEN [this |-> this, error |-> ErrDestroyed]
    ELSE initialize(this, buffer, contextBound, typedViewThrows)

\* the fields of This written back to the variables
Store(this) ==
  /\ state' = this.state
  /\ constantColor' = this.constantColor
  /\ quantizedVolumeScale' = this.quantizedVolumeScale
  /\ drawCommand' = this.drawCommand
  /\ contentReadyToProcessPromise' = this.contentReadyToProcessPromise
  /\ readyPromise' = this.readyPromise
  /\ gpuResources' = this.gpuResources
  /\ settleLog' = this.settleLog

\* ----------------------------------------------------------------- actions
\* request(): RequestScheduler.schedule returns a promise (accepted) or
\* undefined (declined); an accepted request sets LOADING whatever the state.
\* (destroyObject leaves a destroyed tile's methods uncallable.)
Request ==
  /\ ~destroyed
  /\ requests < MaxRequests
  /\ requests' = requests + 1
  /\ \E accepted \in BOOLEAN :
       IF accepted
         THEN /\ state' = Cesium3DTileContentState.LOADING
              /\ inFlight' = inFlight + 1
         ELSE UNCHANGED <<state, inFlight>>
  /\ UNCHANGED <<arrayBuffer, constantColor, quantizedVolumeScale, drawCommand,
                 contentReadyToProcessPromise, readyPromise, gpuResources, settleLog,
                 destroyed, lastError>>

\* the fetch resolves: the then-callback runs, and what it raises or rejects
\* with reaches the otherwise-callback
FetchResolved ==
  /\ inFlight > 0
  /\ inFlight' = inFlight - 1
  /\ \E contextBound \in BOOLEAN, typedViewThrows \in BOOLEAN :
       LET r == then(This, arrayBuffer, contextBound, typedViewThrows)
       IN /\ lastError' = r.error
          /\ Store(IF r.error = NoError THEN r.this ELSE otherwise(r.this, r.error))
  /\ UNCHANGED <<arrayBuffer, requests, destroyed>>

\* the fetch rejects: the otherwise-callback runs
FetchRejected ==
  /\ inFlight > 0
  /\ inFlight' = inFlight - 1
  /\ lastError' = ErrRequest
  /\ Store(otherwise(This, ErrRequest))
  /\ UNCHANGED <<arrayBuffer, requests, destroyed>>

\* update(): writes the model matrix of this._drawCommand in place; the
\* command of the constructor has no modelMatrix to write into.
\* (destroyObject leaves a destroyed tile's methods uncallable.)
Update ==
  /\ ~destroyed
  /\ drawCommand' =
       IF drawCommand.modelMatrix = "undefined"
         THEN drawCommand
         ELSE [drawCommand EXCEPT !.modelMatrix = "fromRotationTranslation"]
  /\ UNCHANGED <<arrayBuffer, state, constantColor, quantizedVolumeScale,
                 contentReadyToProcessPromise, readyPromise, gpuResources, settleLog,
                 inFlight, requests, destroyed, lastError>>

\* what destroy() releases: this._primitive && this._primitive.destroy(), and
\* no method of the file assigns this._primitive
destroyReleases == {}

\* destroy(): releases this._primitive and calls destroyObject(this); a
\* repeated call finds the tile destroyed and changes nothing more
Destroy ==
  /\ gpuResources' = gpuResources \ destroyReleases
  /\ destroyed' = TRUE
  /\ UNCHANGED <<arrayBuffer, state, constantColor, quantizedVolumeScale, drawCommand,
                 contentReadyToProcessPromise, readyPromise, settleLog, inFlight,
                 requests, lastError>>

Next == Request \/ FetchResolved \/ FetchRejected \/ Update \/ Destroy

Spec == Init /\ [][Next]_vars


\* ================================================================== claims
\* initialize has assembled a draw command for this tile
Assembled == "owner" \in DOMAIN drawCommand

\* the step is a fetch resolution (the then-callback ran)
FetchResolvedStep == inFlight' = inFlight - 1 /\ lastError' # ErrRequest

\* the calls made on a deferred, in order
Calls(promise) == SelectSeq(settleLog, LAMBDA e : e.promise = promise)

Terminal == {Cesium3DTileContentState.READY, Cesium3DTileContentState.FAILED}

\* C1: the state only moves UNLOADED -> LOADING (by an accepted request) ->
\* PROCESSING -> READY, or from a state that is neither READY nor FAILED to
\* FAILED; it never moves backwards and never leaves FAILED.  (A fetch
\* continuation passes through PROCESSING to READY within one step.)
C1_MonotonicStates ==
  [][ \/ state' = state
      \/ /\ state = "UNLOADED"
         /\ state' = "LOADING"
         /\ requests' = requests + 1
      \/ state = "LOADING" /\ state' \in {"PROCESSING", "READY"}
      \/ state = "PROCESSING" /\ state' = "READY"
      \/ state \in {"UNLOADED", "LOADING", "PROCESSING"} /\ state' = "FAILED"
    ]_vars

\* C2: when the tile was destroyed while LOADING, the resolution of its fetch
\* changes nothing: not the state, not either promise, not the tile's fields.
C2_ResolutionAfterDestroyIsNoOp ==
  [][ (destroyed /\ state = "LOADING" /\ FetchResolvedStep) =>
        /\ state' = state
        /\ readyPromise' = readyPromise
        /\ contentReadyToProcessPromise' = contentReadyToProcessPromise
        /\ settleLog' = settleLog
        /\ drawCommand' = drawCommand
        /\ constantColor' = constantColor
        /\ gpuResources' = gpuResources
    ]_vars

\* C3: once a load has ended (READY or FAILED, nothing in flight) each of the
\* two deferreds has been settled: never zero times, and exactly once for a
\* tile requested once; a failed load rejected readyPromise, and a successful
\* load resolved contentReadyToProcessPromise in PROCESSING before it resolved
\* readyPromise in READY.
C3_EachPromiseSettledOnce ==
  (state \in Terminal /\ inFlight = 0) =>
    /\ Len(Calls("contentReadyToProcessPromise")) >= 1
    /\ Len(Calls("readyPromise")) >= 1
    /\ requests = 1 =>
         /\ Len(Calls("contentReadyToProcessPromise")) = 1
         /\ Len(Calls("readyPromise")) = 1
         /\ state = "FAILED" => readyPromise = "rejected"
         /\ state = "READY" =>
              settleLog =
                <<[promise |-> "contentReadyToProcessPromise", outcome |-> "resolved",
                   state |-> "PROCESSING"],
                  [promise |-> "readyPromise", outcome |-> "resolved", state |-> "READY"]>>

\* what the tile shows when every initialize of it so far has raised, and
\* raised before it created a GPU object
NeverPastChecks ==
  /\ state \notin {"PROCESSING", "READY"}
  /\ contentReadyToProcessPromise # "resolved"
  /\ readyPromise # "resolved"
  /\ gpuResources = {}
  /\ drawCommand = EmptyDrawCommand
  /\ (lastError = NoError => settleLog = <<>>)

HeaderOrCountDefect(buffer) ==
  \/ buffer.magic # "pnts"
  \/ buffer.version # 1
  \/ buffer.featureTableJSONByteLength = 0
  \/ "POINTS_LENGTH" \notin buffer.json.keys
  \/ {"POSITION", "POSITION_QUANTIZED"} \cap buffer.json.keys = {}

\* C4 as stated: a buffer with a wrong magic, a wrong version, a zero
\* featureTableJSONByteLength, no POINTS_LENGTH, no position property, or
\* POSITION_QUANTIZED without QUANTIZED_VOLUME_SCALE never gets past
\* initialize's checks: no PROCESSING or READY, no promise resolved, no GPU
\* object created.
C4_DefectiveBufferFails_Original ==
  ( \/ HeaderOrCountDefect(arrayBuffer)
    \/ /\ "POSITION_QUANTIZED" \in arrayBuffer.json.keys
       /\ "QUANTIZED_VOLUME_SCALE" \notin arrayBuffer.json.keys )
  => NeverPastChecks

\* C4 (amended): the same, the last defect being POSITION_QUANTIZED without
\* QUANTIZED_VOLUME_SCALE in a table that has no POSITION.
C4_DefectiveBufferFails ==
  ( \/ HeaderOrCountDefect(arrayBuffer)
    \/ /\ "POSITION_QUANTIZED" \in arrayBuffer.json.keys
       /\ "POSITION" \notin arrayBuffer.json.keys
       /\ "QUANTIZED_VOLUME_SCALE" \notin arrayBuffer.json.keys )
  => NeverPastChecks

\* a fetch of a tile with quantized positions and no scale has resolved and
\* initialize raised the scale error
C4_Witness ==
  /\ arrayBuffer.magic = "pnts" /\ arrayBuffer.version = 1
  /\ {"POINTS_LENGTH", "POSITION_QUANTIZED"} \subseteq arrayBuffer.json.keys
  /\ {"POSITION", "QUANTIZED_VOLUME_SCALE"} \cap arrayBuffer.json.keys = {}
  /\ state = "FAILED"
  /\ lastError = ErrVolumeScale
  /\ readyPromise = "rejected"

ValidBuffer(buffer) ==
  /\ HeaderError(buffer) = NoError
  /\ "POINTS_LENGTH" \in buffer.json.keys
  /\ \/ "POSITION" \in buffer.json.keys
     \/ {"POSITION_QUANTIZED", "QUANTIZED_VOLUME_SCALE"} \subseteq buffer.json.keys

\* C5: when the fetch of a live tile resolves with a valid buffer the tile is
\* READY, readyPromise is resolved and the draw command's count is the
\* table's POINTS_LENGTH.
C5_ValidBufferReachesReady ==
  [][ (ValidBuffer(arrayBuffer) /\ ~destroyed /\ requests = 1 /\ FetchResolvedStep) =>
        /\ state' = "READY"
        /\ readyPromise' = "resolved"
        /\ "owner" \in DOMAIN drawCommand'
        /\ drawCommand'.count = arrayBuffer.json.POINTS_LENGTH
    ]_vars

\* the tile's colors resolve as translucent
TranslucentTile == ResolveColors(arrayBuffer.json, WHITE, FALSE).isTranslucent

\* C6: an assembled draw command tests depth; a translucent one does not
\* write depth, blends and is in the translucent pass, an opaque one writes
\* depth, does not blend and is in the opaque pass; the pass is one of the two.
C6_RenderStateAndPass ==
  Assembled =>
    /\ drawCommand.renderState.depthTest
    /\ drawCommand.pass \in {Pass.OPAQUE, Pass.TRANSLUCENT}
    /\ TranslucentTile =>
         /\ ~drawCommand.renderState.depthMask
         /\ drawCommand.renderState.blending = "ALPHA_BLEND"
         /\ drawCommand.pass = Pass.TRANSLUCENT
    /\ ~TranslucentTile =>
         /\ drawCommand.renderState.depthMask
         /\ drawCommand.renderState.blending = "DISABLED"
         /\ drawCommand.pass = Pass.OPAQUE

\* the tile of the quantized end-to-end scenario: POSITION_QUANTIZED in place
\* of POSITION, QUANTIZED_VOLUME_SCALE, RGBA, no normals
QuantizedRgbaTile ==
  /\ {"POINTS_LENGTH", "POSITION_QUANTIZED", "QUANTIZED_VOLUME_SCALE", "RGBA"}
       \subseteq arrayBuffer.json.keys
  /\ {"POSITION", "NORMAL", "NORMAL_OCT16P"} \cap arrayBuffer.json.keys = {}

SomeAlphaBelow255 ==
  \E i \in 1..Len(arrayBuffer.json.RGBA) : arrayBuffer.json.RGBA[i] < 255

PositionAndColorLayout ==
  /\ Len(drawCommand.vertexArray) = 2
  /\ drawCommand.vertexArray[1].index = positionAttributeLocation
  /\ drawCommand.vertexArray[2].index = colorAttributeLocation
  /\ "u_quantizedVolumeScale" \in drawCommand.uniformMap

\* C7 as stated: the assembled quantized RGBA tile (with at least one point)
\* is in the translucent pass iff some alpha byte is below 255 and in the
\* opaque pass when all are 255; its layout is position and color and its
\* uniform map has the scale.  "In the translucent pass" is read as "not in
\* the opaque pass", so that the pass member C6 is about does not decide it.
C7_TranslucentIffAlpha_Original ==
  (QuantizedRgbaTile /\ Assembled /\ arrayBuffer.json.POINTS_LENGTH > 0) =>
    /\ (drawCommand.pass # Pass.OPAQUE) <=> SomeAlphaBelow255
    /\ ~SomeAlphaBelow255 => drawCommand.pass = Pass.OPAQUE
    /\ PositionAndColorLayout

\* C7 (amended): the assembled quantized RGBA tile is translucent whatever its
\* alpha bytes are: no depth writes, alpha blending, a four-component color
\* attribute and never the opaque pass; its layout is position and color and
\* its uniform map has the scale.
C7_RgbaAlwaysTranslucent ==
  (QuantizedRgbaTile /\ Assembled) =>
    /\ ~drawCommand.renderState.depthMask
    /\ drawCommand.renderState.blending = "ALPHA_BLEND"
    /\ drawCommand.pass # Pass.OPAQUE
    /\ drawCommand.vertexArray[2].componentsPerAttribute = 4
    /\ PositionAndColorLayout

\* an assembled quantized RGBA tile all of whose points have alpha 255
C7_Witness ==
  /\ QuantizedRgbaTile
  /\ Assembled
  /\ arrayBuffer.json.POINTS_LENGTH > 0
  /\ ~SomeAlphaBelow255

\* C8: after destroy() no GPU object of the tile's draw command is left.
C8_DestroyReleases ==
  destroyed => gpuResources = {}

\* the color attribute of the assembled vertex array, as a set
ColorAttributes ==
  { drawCommand.vertexArray[i] : i \in
      { j \in 1..Len(drawCommand.vertexArray) :
          drawCommand.vertexArray[j].index = colorAttributeLocation } }

TranslucentRenderState ==
  /\ ~drawCommand.renderState.depthMask
  /\ drawCommand.renderState.blending = "ALPHA_BLEND"

\* C9: an assembled tile's color is resolved from the first of RGBA, RGB,
\* CONSTANT_COLOR its table has.  RGBA: a four-component color attribute,
\* translucent, constantColor still white.  RGB: a three-component color
\* attribute, opaque, constantColor still white.  CONSTANT_COLOR: no color
\* attribute, constantColor the decoded bytes, translucent iff its alpha is
\* below 1.  None: no color attribute, constantColor opaque dark gray.
C9_ColorPrecedence ==
  Assembled =>
    LET keys == arrayBuffer.json.keys IN
    IF "RGBA" \in keys
      THEN /\ \E a \in ColorAttributes : a.componentsPerAttribute = 4
           /\ Cardinality(ColorAttributes) = 1
           /\ TranslucentRenderState
           /\ constantColor = WHITE
    ELSE IF "RGB" \in keys
      THEN /\ \E a \in ColorAttributes : a.componentsPerAttribute = 3
           /\ Cardinality(ColorAttributes) = 1
           /\ ~TranslucentRenderState
           /\ constantColor = WHITE
    ELSE IF "CONSTANT_COLOR" \in keys
      THEN /\ ColorAttributes = {}
           /\ constantColor = fromBytes(arrayBuffer.json.CONSTANT_COLOR)
           /\ TranslucentRenderState <=> arrayBuffer.json.CONSTANT_COLOR[4] < 255
    ELSE /\ ColorAttributes = {}
         /\ constantColor = DARKGRAY
         /\ ~TranslucentRenderState

\* an assembled tile whose table has both RGBA and CONSTANT_COLOR
C9_Witness ==
  /\ Assembled
  /\ {"RGBA", "CONSTANT_COLOR"} \subseteq arrayBuffer.json.keys
  /\ state = "READY"

\* names the renderer and GLSL supply to every shader
BuiltIns ==
  {"czm_octDecode", "czm_normal", "czm_sunDirectionEC", "czm_modelViewProjection",
   "gl_Position", "gl_PointSize"}

DeclaredBefore(vs, i) ==
  { vs[j].name : j \in { k \in 1..(i - 1) : vs[k].kind # "assign" } }

DeclaredAttributes(vs) ==
  { vs[j].name : j \in { k \in 1..Len(vs) : vs[k].kind = "attribute" } }

\* C10: in an assembled draw command every name a line of the vertex shader
\* reads or assigns is a built-in or declared on an earlier line; the
\* attributes the shader declares are the names of the attribute-location
\* map; and the map's locations are the indices of the vertex attribute list,
\* one each.
C10_ShaderSelfConsistent ==
  Assembled =>
    LET vs == drawCommand.vertexShaderSource
        locations == drawCommand.attributeLocations
        attributes == drawCommand.vertexArray
    IN /\ \A i \in 1..Len(vs) :
            /\ vs[i].reads \subseteq BuiltIns \cup DeclaredBefore(vs, i)
            /\ vs[i].kind = "assign" => vs[i].name \in BuiltIns \cup DeclaredBefore(vs, i)
       /\ DeclaredAttributes(vs) = { e[1] : e \in locations }
       /\ { e[2] : e \in locations } = { attributes[i].index : i \in 1..Len(attributes) }
       /\ Cardinality(locations) = Len(attributes)

====
